---- MODULE Spec2Model ----
(***************************************************************************)
(* The aggregation scheduler of the tile production pipeline               *)
(* (pipelines/aggregation_run.py) with the per-unit steps it drives        *)
(* (aggregation_reproject.reproject, aggregation_merge.merge, the encode   *)
(* step aggregation_tile.main) and the staged driver of                    *)
(* pipelines/test_source.py.  The state is the on-disk state of every      *)
(* unit of the current snapshot, the worker pool and the driver's stage.   *)
(***************************************************************************)
EXTENDS Integers, Sequences, FiniteSets, TLC

\* ---------------------------------------------------------------- bounds
NumUnits == 2       \* plan files (units) of the current snapshot
NumWorkers == 2     \* worker processes of the pool
MaxGroups == 2      \* source groups of a plan
MaxRuns == 2        \* scheduler invocations (first run and re-runs)
MaxKills == 1       \* scheduler runs that are killed

Units == 1..NumUnits
Workers == 1..NumWorkers
NoUnit == 0

\* Index range of the files <i>-3857.tiff of a tmp/ folder: the reprojected
\* groups, and one more file per merge attempt that opened its output.
TiffIds == 0..(MaxGroups + MaxRuns - 1)

\* Content of a tiff: <<>> no file, <<"partial">> a file whose writer did
\* not finish, <<"reproj">> a finished reprojected group, and
\* <<"merged", k_0, .., k_(n-1)>> a finished merge of n inputs of kinds k_i.
NoFile == <<>>
Partial == <<"partial">>
Reprojected == <<"reproj">>
NoTiffs == [i \in TiffIds |-> NoFile]

VARIABLES
    aggregation_ids,  \* number of snapshots in aggregation-store (1 or 2)
    plan,             \* plan[u]: the plan file of u in the current snapshot
    previous,         \* previous[u]: the same-key plan of the previous snapshot
    tmp,              \* tmp[u]: the folder <u>-tmp exists
    tiffs,            \* tiffs[u][i]: content of <u>-tmp/<i>-3857.tiff
    reprojection,     \* reprojection[u]: 0 no reprojection.json, else len(tiff_dataset_ids)
    merge_done,       \* merge_done[u]: <u>-tmp/merge-done exists
    archive,          \* archive[u]: the finished tile archive of u, if any
    md5,              \* md5[u]: the archive's .md5 sibling exists
    aggregation_done, \* aggregation_done[u]: <u>-aggregation.done exists
    mainPc,           \* "idle", "running" or "killed"
    queue,            \* tasks of the pool not yet taken, in order
    pc,               \* pc[w]: the call of run() worker w is about to make
    unit,             \* unit[w]: the unit worker w holds
    failed,           \* units whose run() raised in this scheduler run
    first_exception,  \* the unit whose exception the map result stored
    exit_code,        \* how the last scheduler run ended
    runs,             \* scheduler invocations so far
    kills,            \* scheduler runs killed so far
    dispatched,       \* units handed to the pool by this scheduler run
    entered,          \* entered[u]: times run(u) was entered in this run
    last,             \* last[w]: what the call run() made last did
    stage,            \* position of SourceTester.run
    tiff_tiles,       \* merge: band 1 of the input tiffs, one row of pixels each
    merged_raster,    \* merge: band 1 of the output raster, <<>> before it is written
    grouped_source_items, \* reproject: the plan, the number of files of each group
    maxzoom,          \* reproject: maxzoom of the first item of the plan
    metadata,         \* reproject: what is dumped to reprojection.json, <<>> before
    warp_buffer,      \* reproject: the buffers create_warp was called with
    filepaths,        \* create_archive: the participating archives
    written,          \* create_archive: the tile_ids passed to write_tile, in order
    data,             \* terrarium: an elevation, in 1/256 m
    rgb,              \* terrarium: the encoded channels, <<>> before encoding
    elevation,        \* terrarium: the decoded elevation, in 1/256 m
    grid,             \* merge: height and width of the rasters, and the overlap
    dst_writes,       \* merge: the windows written to the output, in order
    sigma,            \* merge: the sigma of the blend, <<>> before it is computed
    stage_completion, \* PipelineState: the stages recorded as complete
    pixels,           \* downsampling: the array to reduce, rows of pixels
    reduced,          \* downsampling: the reduced array, <<>> before
    task_pc,          \* download: task_pc[t], the position of download task t
    position,         \* download: position[t], the progress-bar position t holds
    available,        \* download: PositionManager.available
    semaphore         \* download: the free permits of the semaphore

disk == <<tmp, tiffs, reprojection, merge_done, archive, md5, aggregation_done>>
snapshot == <<aggregation_ids, plan, previous>>
pool == <<mainPc, queue, pc, unit, failed, first_exception, exit_code, runs,
          kills, dispatched, entered, last>>
calc == <<tiff_tiles, merged_raster, grouped_source_items, maxzoom, metadata,
          warp_buffer, filepaths, written, data, rgb, elevation>>
blocks == <<grid, dst_writes, sigma>>
downsample == <<pixels, reduced>>
downloads == <<task_pc, position, available, semaphore>>
more == <<blocks, downsample, downloads>>
vars == <<snapshot, disk, pool, stage, stage_completion, calc, more>>

\* ------------------------------------------------------------- snapshots
\* A plan: its number of groups, and firstFull, the index of the first group
\* whose reprojected tiff has no SENTINEL pixel (groups when there is none).
\* The tiff of a single group is never scanned (line 110), so one plan stands
\* for all single-group plans.
Plans == UNION {[groups : {g}, firstFull : IF g = 1 THEN {1} ELSE {0, g}] :
                    g \in 1..MaxGroups}

\* utils.get_dirty_aggregation_filenames: the plans of the current snapshot
\* that differ from the same-key plan of the previous one, or are new.
get_dirty_aggregation_filenames ==
    {u \in Units : previous[u] \in {"differs", "absent"}}

\* main, lines 27-32: the candidate list before the sentinel filter.
DirtyCandidates_AllPlans == Units
DirtyCandidates ==
    IF aggregation_ids < 2 THEN Units ELSE get_dirty_aggregation_filenames

\* main, line 34: drop the units whose -aggregation.done exists.
dirty_filepaths_NoFilter == DirtyCandidates
dirty_filepaths == {u \in DirtyCandidates : ~aggregation_done[u]}

RECURSIVE SortedSeq(_)
SortedSeq(S) ==
    IF S = {} THEN <<>>
    ELSE LET m == CHOOSE x \in S : \A y \in S : x <= y
         IN  <<m>> \o SortedSeq(S \ {m})

\* No raster, plan, bundle or elevation is being computed on.
NoRasters == tiff_tiles = <<>> /\ merged_raster = <<>>
NoPlan ==
    /\ grouped_source_items = <<>>
    /\ maxzoom = 0
    /\ metadata = <<>>
    /\ warp_buffer = <<>>
NoBundle == filepaths = {} /\ written = <<>>
NoElevation == data = 0 /\ rgb = <<>> /\ elevation = <<>>
NoCalc == NoRasters /\ NoPlan /\ NoBundle /\ NoElevation
NoBlocks == grid = <<>> /\ dst_writes = <<>> /\ sigma = <<>>
NoDownsample == pixels = <<>> /\ reduced = <<>>
NoDownloads ==
    /\ task_pc = <<>> /\ position = <<>> /\ available = <<>> /\ semaphore = 0
NoMore == NoBlocks /\ NoDownsample /\ NoDownloads

\* The snapshots aggregation_run.py may find.
InitSnapshot ==
    /\ aggregation_ids \in {1, 2}
    /\ plan \in [Units -> Plans]
    /\ previous \in [Units -> {"absent", "same", "differs"}]
    /\ aggregation_ids = 1 => previous = [u \in Units |-> "absent"]

\* Nothing is on disk and no scheduler runs.
InitIdle ==
    /\ tmp = [u \in Units |-> FALSE]
    /\ tiffs = [u \in Units |-> NoTiffs]
    /\ reprojection = [u \in Units |-> 0]
    /\ merge_done = [u \in Units |-> FALSE]
    /\ archive = [u \in Units |-> NoFile]
    /\ md5 = [u \in Units |-> FALSE]
    /\ aggregation_done = [u \in Units |-> FALSE]
    /\ mainPc = "idle"
    /\ queue = <<>>
    /\ pc = [w \in Workers |-> "idle"]
    /\ unit = [w \in Workers |-> NoUnit]
    /\ failed = {}
    /\ first_exception = NoUnit
    /\ exit_code = "none"
    /\ runs = 0
    /\ kills = 0
    /\ dispatched = {}
    /\ entered = [u \in Units |-> 0]
    /\ last = [w \in Workers |-> "none"]
    /\ stage = "none"
    /\ stage_completion = {}

Init == NoCalc /\ NoMore /\ InitSnapshot /\ InitIdle

\* The pipeline at rest, for the specifications of single functions.
AtRest ==
    /\ aggregation_ids = 1
    /\ plan = [u \in Units |-> [groups |-> 1, firstFull |-> 1]]
    /\ previous = [u \in Units |-> "absent"]
    /\ InitIdle

\* main, lines 23-42, up to the hand-over of the tasks to the pool.
StartMain ==
    /\ mainPc = "idle"
    /\ runs < MaxRuns
    /\ mainPc' = "running"
    /\ runs' = runs + 1
    /\ queue' = SortedSeq(dirty_filepaths)
    /\ dispatched' = dirty_filepaths
    /\ entered' = [u \in Units |-> 0]
    /\ failed' = {}
    /\ first_exception' = NoUnit
    /\ exit_code' = "none"
    /\ UNCHANGED <<more, calc, snapshot, disk, pc, unit, kills, last>>

\* ------------------------------------------------------------ the pool
\* Pool.starmap with chunksize=1: a free worker takes the next task alone.
Remaining_Keep(q) == q
Remaining(q) == Tail(q)

\* A worker leaves run(): it holds no unit.
Release(w) ==
    /\ pc' = [pc EXCEPT ![w] = "idle"]
    /\ unit' = [unit EXCEPT ![w] = NoUnit]
    /\ last' = [last EXCEPT ![w] = "none"]

\* run() raised: the pool's map result stores the first exception only and
\* becomes ready once every task is done; the worker goes on.
Raise_StopPool(w) ==
    /\ failed' = failed \cup {unit[w]}
    /\ first_exception' =
           IF first_exception = NoUnit THEN unit[w] ELSE first_exception
    /\ Release(w)
    /\ queue' = <<>>
    /\ UNCHANGED <<mainPc, exit_code, runs, kills, dispatched, entered>>
Raise_Continues(w) ==
    /\ failed' = failed \cup {unit[w]}
    /\ first_exception' =
           IF first_exception = NoUnit THEN unit[w] ELSE first_exception
    /\ pc' = [pc EXCEPT ![w] = IF @ = "reproject" THEN "merge"
                                ELSE IF @ = "merge" THEN "encode"
                                ELSE "rmtree"]
    /\ last' = [last EXCEPT ![w] = "raised"]
    /\ UNCHANGED <<mainPc, queue, unit, exit_code, runs, kills, dispatched,
                   entered>>
Raise(w) ==
    /\ failed' = failed \cup {unit[w]}
    /\ first_exception' =
           IF first_exception = NoUnit THEN unit[w] ELSE first_exception
    /\ Release(w)
    /\ UNCHANGED <<mainPc, queue, exit_code, runs, kills, dispatched, entered>>

\* run, lines 15-20: the calls of run(), in order.
NextCall_NoEncode(call) ==
    CASE call = "reproject" -> "merge"
      [] call = "merge" -> "rmtree"
      [] call = "encode" -> "rmtree"
      [] call = "rmtree" -> "touch"
NextCall_TouchFirst(call) ==
    CASE call = "reproject" -> "merge"
      [] call = "merge" -> "encode"
      [] call = "encode" -> "touch"
      [] call = "rmtree" -> "touch"
NextCall(call) ==
    CASE call = "reproject" -> "merge"
      [] call = "merge" -> "encode"
      [] call = "encode" -> "rmtree"
      [] call = "rmtree" -> "touch"

\* The call pc[w] returned having done `done`: run() makes its next call.
Goto(w, done) ==
    /\ pc' = [pc EXCEPT ![w] = NextCall(pc[w])]
    /\ last' = [last EXCEPT ![w] = done]
    /\ UNCHANGED <<mainPc, queue, unit, failed, first_exception, exit_code,
                   runs, kills, dispatched, entered>>

\* A worker takes a task: run(filepath) is entered (run, lines 11-14).
Take(w) ==
    /\ mainPc = "running"
    /\ pc[w] = "idle"
    /\ \A v \in Workers : v < w => pc[v] # "idle"
    /\ queue # <<>>
    /\ LET u == Head(queue) IN
        /\ queue' = Remaining(queue)
        /\ unit' = [unit EXCEPT ![w] = u]
        /\ pc' = [pc EXCEPT ![w] = "reproject"]
        /\ entered' = [entered EXCEPT ![u] = @ + 1]
        /\ last' = [last EXCEPT ![w] = "start"]
    /\ UNCHANGED <<more, calc, snapshot, disk, mainPc, failed, first_exception, exit_code,
                   runs, kills, dispatched, stage, stage_completion>>

\* --------------------------------------------------------------- reproject
\* reproject, lines 100-111: the groups processed, in priority order, until
\* the first group of a multi-group plan whose tiff has no SENTINEL pixel.
ProcessedFrom_NoBreak(p, i) == p.groups
RECURSIVE ProcessedFrom(_, _)
ProcessedFrom(p, i) ==
    IF i >= p.groups THEN i
    ELSE IF p.groups > 1 /\ p.firstFull = i THEN i + 1
    ELSE ProcessedFrom(p, i + 1)
Processed(p) == ProcessedFrom(p, 0)

\* The tiffs of u once groups 0..k-1 are translated, group k being left
\* half-written when p.
ReprojectedUpTo(u, k, p) ==
    [i \in TiffIds |-> IF i < k THEN Reprojected
                       ELSE IF i = k /\ p THEN Partial
                       ELSE tiffs[u][i]]

\* reproject, lines 105-118: group k raised in create_warp or translate;
\* the exception leaves reproject before line 113.
MetadataAfterRaise_Dumped(u, k) == [reprojection EXCEPT ![u] = k + 1]
MetadataAfterRaise(u, k) == reprojection

\* reproject, lines 83-86: reprojection.json present, nothing to do.
AlreadyReprojected_Never(u) == FALSE
AlreadyReprojected(u) == reprojection[u] # 0

Reproject(w) ==
    /\ mainPc = "running"
    /\ pc[w] = "reproject"
    /\ LET u == unit[w]
           n == Processed(plan[u])
       IN
        /\ tmp' = [tmp EXCEPT ![u] = TRUE]
        /\ IF AlreadyReprojected(u)
           THEN /\ Goto(w, "skipped")
                /\ UNCHANGED <<tiffs, reprojection>>
           ELSE \/ /\ tiffs' = [tiffs EXCEPT ![u] = ReprojectedUpTo(u, n, FALSE)]
                   /\ reprojection' = [reprojection EXCEPT ![u] = n]
                   /\ Goto(w, "warped")
                \/ \E k \in 0..(n - 1), p \in BOOLEAN :
                       /\ tiffs' = [tiffs EXCEPT ![u] = ReprojectedUpTo(u, k, p)]
                       /\ reprojection' = MetadataAfterRaise(u, k)
                       /\ Raise(w)
    /\ UNCHANGED <<more, calc, snapshot, merge_done, archive, md5, aggregation_done, stage, stage_completion>>

\* ------------------------------------------------------------------- merge
\* merge, line 30: len(glob(tmp/*.tiff)), whatever the names of the files.
NumTiffFiles(u) == Cardinality({i \in TiffIds : tiffs[u][i] # NoFile})

\* merge, line 40: the inputs are <i>-3857.tiff for i in range(num_tiff_files).
TiffInputs(u) == 0..(NumTiffFiles(u) - 1)
InputsPresent(u) == \A i \in TiffInputs(u) : tiffs[u][i] # NoFile

\* merge, line 55: the output is <num_tiff_files>-3857.tiff.
OutputId(u) == NumTiffFiles(u)

\* The merged raster: what the block loop writes from its inputs.
MergedFrom(u) ==
    <<"merged">> \o [i \in 1..NumTiffFiles(u) |-> Head(tiffs[u][i - 1])]

\* merge, lines 20-38: is the block loop of lines 40-124 reached?
MergeLoopReached_NoShortcut(u) ==
    /\ ~merge_done[u]
    /\ reprojection[u] # 0
    /\ NumTiffFiles(u) >= 1
    /\ OutputId(u) \in TiffIds
MergeLoopReached(u) ==
    /\ ~merge_done[u]
    /\ reprojection[u] # 0
    /\ NumTiffFiles(u) > 1
    /\ OutputId(u) \in TiffIds

WithOutput(u, content) ==
    [tiffs EXCEPT ![u] = [@ EXCEPT ![OutputId(u)] = content]]

Merge(w) ==
    /\ mainPc = "running"
    /\ pc[w] = "merge"
    /\ LET u == unit[w] IN
        \/ /\ merge_done[u] \/ reprojection[u] = 0       \* lines 21-28
           /\ Goto(w, "skipped")
           /\ UNCHANGED <<tiffs, merge_done>>
        \/ /\ ~merge_done[u] /\ reprojection[u] # 0
           /\ NumTiffFiles(u) = 0                        \* lines 32-33
           /\ Raise(w)
           /\ UNCHANGED <<tiffs, merge_done>>
        \/ /\ ~merge_done[u] /\ reprojection[u] # 0
           /\ NumTiffFiles(u) = 1                        \* lines 35-38
           /\ merge_done' = [merge_done EXCEPT ![u] = TRUE]
           /\ Goto(w, "shortcut")
           /\ UNCHANGED tiffs
        \/ /\ MergeLoopReached(u)                        \* lines 40-127
           /\ InputsPresent(u)
           /\ tiffs' = WithOutput(u, MergedFrom(u))
           /\ merge_done' = [merge_done EXCEPT ![u] = TRUE]
           /\ Goto(w, "merged")
        \/ /\ MergeLoopReached(u)      \* a read or a write raises in the loop
           /\ tiffs' = IF tiffs[u][0] = NoFile THEN tiffs
                       ELSE WithOutput(u, Partial)
           /\ Raise(w)
           /\ UNCHANGED merge_done
    /\ UNCHANGED <<more, calc, snapshot, tmp, reprojection, archive, md5, aggregation_done,
                   stage, stage_completion>>

\* ------------------------------------------------------------------ encode
\* aggregation_tile.main: the raster it encodes is N-3857.tiff, N the number
\* of groups reprojection.json records, or 0-3857.tiff when N is 1.
EncodeInput(u) == IF reprojection[u] <= 1 THEN 0 ELSE reprojection[u]

Encoded(u) == <<"archive">> \o tiffs[u][EncodeInput(u)]

Encode(w) ==
    /\ mainPc = "running"
    /\ pc[w] = "encode"
    /\ LET u == unit[w] IN
        \/ /\ tiffs[u][EncodeInput(u)] # NoFile
           /\ archive' = [archive EXCEPT ![u] = Encoded(u)]
           /\ md5' = [md5 EXCEPT ![u] = TRUE]    \* the .md5 sibling
           /\ Goto(w, "encoded")
        \/ /\ archive' \in {archive, [archive EXCEPT ![u] = NoFile]}
           /\ UNCHANGED md5
           /\ Raise(w)
    /\ UNCHANGED <<more, calc, snapshot, tmp, tiffs, reprojection, merge_done,
                   aggregation_done, stage, stage_completion>>

\* ----------------------------------------------------- run, lines 18-21
\* What is left of tmp/ when only the files of keep (and the sentinels kj,
\* km allow) survive.
Kept(u, keep, kj, km) ==
    /\ tiffs' = [tiffs EXCEPT ![u] =
                    [i \in TiffIds |-> IF i \in keep THEN @[i] ELSE NoFile]]
    /\ reprojection' = [reprojection EXCEPT ![u] = IF kj THEN @ ELSE 0]
    /\ merge_done' = [merge_done EXCEPT ![u] = km /\ @]

\* shutil.rmtree(tmp_folder), line 19.
Rmtree(w) ==
    /\ mainPc = "running"
    /\ pc[w] = "rmtree"
    /\ tmp' = [tmp EXCEPT ![unit[w]] = FALSE]
    /\ Kept(unit[w], {}, FALSE, FALSE)
    /\ Goto(w, "removed")
    /\ UNCHANGED <<more, calc, snapshot, archive, md5, aggregation_done, stage, stage_completion>>

\* touch <unit>-aggregation.done, line 20, and the end of run().
Touch(w) ==
    /\ mainPc = "running"
    /\ pc[w] = "touch"
    /\ aggregation_done' = [aggregation_done EXCEPT ![unit[w]] = TRUE]
    /\ Release(w)
    /\ UNCHANGED <<more, calc, snapshot, tmp, tiffs, reprojection, merge_done, archive, md5,
                   mainPc, queue, failed, first_exception, exit_code, runs,
                   kills, dispatched, entered, stage, stage_completion>>

\* ------------------------------------------------- the end of a scheduler run
AllIdle == \A w \in Workers : pc[w] = "idle"

\* starmap returns once every task is done and re-raises the stored
\* exception: the process ends with a non-zero status.
ExitCode == IF first_exception = NoUnit THEN "ok" ELSE "error"

EndMain ==
    /\ mainPc = "running"
    /\ queue = <<>>
    /\ AllIdle
    /\ mainPc' = "idle"
    /\ exit_code' = ExitCode
    /\ UNCHANGED <<more, calc, snapshot, disk, queue, pc, unit, failed, first_exception,
                   runs, kills, dispatched, entered, last>>

\* The scheduler and its workers are killed: no further task is taken, and
\* each worker dies inside the call it is in (Reap).
KillMain ==
    /\ mainPc = "running"
    /\ mainPc' = IF AllIdle THEN "idle" ELSE "killed"
    /\ queue' = <<>>
    /\ exit_code' = "killed"
    /\ kills < MaxKills
    /\ kills' = kills + 1
    /\ UNCHANGED <<more, calc, snapshot, disk, pc, unit, failed, first_exception, runs,
                   dispatched, entered, last>>

\* Worker w dies inside the call pc[w] names, leaving what that call had
\* written so far.
Reap(w) ==
    /\ mainPc = "killed"
    /\ pc[w] # "idle"
    /\ LET u == unit[w] IN
        \/ /\ pc[w] = "reproject"
           /\ \/ UNCHANGED <<tmp, tiffs>>
              \/ /\ tmp' = [tmp EXCEPT ![u] = TRUE]
                 /\ IF AlreadyReprojected(u) THEN UNCHANGED tiffs
                    ELSE \E k \in 0..(Processed(plan[u]) - 1), p \in BOOLEAN :
                           tiffs' = [tiffs EXCEPT ![u] = ReprojectedUpTo(u, k, p)]
           /\ UNCHANGED <<reprojection, merge_done, archive, md5>>
        \/ /\ pc[w] = "merge"
           /\ \/ UNCHANGED tiffs
              \/ /\ MergeLoopReached(u)
                 /\ tiffs[u][0] # NoFile
                 /\ tiffs' = WithOutput(u, Partial)
              \/ /\ MergeLoopReached(u)
                 /\ InputsPresent(u)
                 /\ tiffs' = WithOutput(u, MergedFrom(u))
           /\ UNCHANGED <<tmp, reprojection, merge_done, archive, md5>>
        \/ /\ pc[w] = "encode"
           /\ archive' \in {archive, [archive EXCEPT ![u] = NoFile]}
           /\ UNCHANGED <<tmp, tiffs, reprojection, merge_done, md5>>
        \/ /\ pc[w] = "rmtree"
           /\ \E keep \in {{}, TiffIds}, kj \in BOOLEAN, km \in BOOLEAN :
                  Kept(u, keep, kj, km)
           /\ UNCHANGED <<tmp, archive, md5>>
        \/ /\ pc[w] = "touch"
           /\ UNCHANGED <<tmp, tiffs, reprojection, merge_done, archive, md5>>
    /\ Release(w)
    /\ mainPc' = IF \A v \in Workers \ {w} : pc[v] = "idle" THEN "idle" ELSE "killed"
    /\ UNCHANGED <<more, calc, snapshot, aggregation_done, queue, failed, first_exception,
                   exit_code, runs, kills, dispatched, entered, stage, stage_completion>>

Worker(w) ==
    \/ Take(w) \/ Reproject(w) \/ Merge(w) \/ Encode(w) \/ Rmtree(w)
    \/ Touch(w) \/ Reap(w)

Main == StartMain /\ stage = "none" /\ UNCHANGED <<stage, stage_completion>>

Finish == EndMain /\ stage = "none" /\ UNCHANGED <<stage, stage_completion>>

Kill == KillMain /\ stage = "none" /\ UNCHANGED <<stage, stage_completion>>

Next ==
    \/ Main
    \/ Finish
    \/ Kill
    \/ \E w \in Workers : Worker(w)

\* ------------------------------------------------- SourceTester.run
\* The stages of run, lines 229-234, in their order.
stages == <<"source_prep", "aggregation", "downsampling", "index">>

\* run, lines 241-245 with collect_and_save_metrics, lines 179-211, and
\* mark_stage_complete (pipeline_state.py, lines 61-68): the values the recorded
\* set can have after the command of stage_id returned success.  The stage is
\* recorded only on success, and only when the collector of its metrics
\* (line 183, 185, 187 or 189) returned: an exception of the collector is
\* caught at line 210, before line 194, and run goes on to the next stage.
collect_and_save_metrics_Always(success, stage_id) ==
    {stage_completion \cup {stage_id}}
collect_and_save_metrics(success, stage_id) ==
    IF success
    THEN {stage_completion, stage_completion \cup {stage_id}}
    ELSE {stage_completion}

\* run, lines 229-239: the first stage is started.
RunTester ==
    /\ stage = "none"
    /\ stage' = "source_prep"
    /\ UNCHANGED <<more, calc, snapshot, disk, pool, stage_completion>>

\* run_source_prep, lines 65-76, and run, lines 241-245.
RunSourcePrep ==
    /\ stage = "source_prep"
    /\ \E success \in BOOLEAN :
           /\ stage' = IF success THEN "aggregation" ELSE "stopped"
           /\ stage_completion' \in collect_and_save_metrics(success, "source_prep")
    /\ UNCHANGED <<more, calc, snapshot, disk, pool>>

\* run_aggregation, lines 86-94: the covering failed.
CoveringFailed ==
    /\ stage = "aggregation"
    /\ stage' = "stopped"
    /\ UNCHANGED <<more, calc, snapshot, disk, pool, stage_completion>>

\* run_aggregation, lines 96-101: aggregation_run.py is started.
RunAggregation ==
    /\ stage = "aggregation"
    /\ StartMain
    /\ stage' = "aggregation_run"
    /\ UNCHANGED stage_completion

\* run_aggregation, lines 103-111, and run, lines 241-245: the stage
\* succeeded when aggregation_run.py returned 0.
StageAfterAggregation_Always == "downsampling"
StageAfterAggregation ==
    IF ExitCode = "ok" THEN "downsampling" ELSE "stopped"

AggregationReturned ==
    /\ stage = "aggregation_run"
    /\ EndMain
    /\ stage' = StageAfterAggregation
    /\ stage_completion' \in
           collect_and_save_metrics(StageAfterAggregation = "downsampling",
                                    "aggregation")

\* run, lines 247-249: interrupted while aggregation_run.py runs.
Interrupted ==
    /\ stage = "aggregation_run"
    /\ KillMain
    /\ stage' = "stopped"
    /\ UNCHANGED stage_completion

\* run_downsampling, lines 121-136: after the covering, downsampling_run.py
\* is started; the downsampling units start inside it.
RunDownsampling ==
    /\ stage = "downsampling"
    /\ stage' \in {"downsampling_run", "stopped"}
    /\ UNCHANGED <<more, calc, snapshot, disk, pool, stage_completion>>

\* run_downsampling, lines 138-146, and run, lines 241-245.
DownsamplingReturned ==
    /\ stage = "downsampling_run"
    /\ \E success \in BOOLEAN :
           /\ stage' = IF success THEN "index" ELSE "stopped"
           /\ stage_completion' \in collect_and_save_metrics(success, "downsampling")
    /\ UNCHANGED <<more, calc, snapshot, disk, pool>>

\* run_index, lines 148-177, and run, lines 241-266.
RunIndex ==
    /\ stage = "index"
    /\ \E success \in BOOLEAN :
           /\ stage' = IF success THEN "complete" ELSE "stopped"
           /\ stage_completion' \in collect_and_save_metrics(success, "index")
    /\ UNCHANGED <<more, calc, snapshot, disk, pool>>

NextStaged ==
    \/ RunTester
    \/ RunSourcePrep
    \/ CoveringFailed
    \/ RunAggregation
    \/ AggregationReturned
    \/ Interrupted
    \/ RunDownsampling
    \/ DownsamplingReturned
    \/ RunIndex
    \/ \E w \in Workers : Worker(w)

SpecStaged == Init /\ [][NextStaged]_vars

Spec == Init /\ [][Next]_vars

\* ------------------------------------------- re-runs without tool failures
\* The rasters the call worker w is about to make reads are finished files:
\* reproject reads the sources, merge the tiffs 0..num_tiff_files-1 (lines
\* 40, 74, 87), encode the raster EncodeInput names.
ValidInputs(w) ==
    LET u == unit[w] IN
    CASE pc[w] = "reproject" -> TRUE
      [] pc[w] = "merge" ->
            \/ ~MergeLoopReached(u) /\ NumTiffFiles(u) # 0
            \/ /\ MergeLoopReached(u)
               /\ \A i \in TiffInputs(u) : tiffs[u][i] \notin {NoFile, Partial}
      [] pc[w] = "encode" -> tiffs[u][EncodeInput(u)] \notin {NoFile, Partial}
      [] OTHER -> TRUE

\* No toolkit call fails on valid inputs: run() raises for a unit only in a
\* call whose inputs are missing or half-written.
SucceedsOnValid(w) == ValidInputs(w) => failed' = failed

NextRerun ==
    \/ Main
    \/ Finish
    \/ Kill
    \/ \E w \in Workers :
           \/ Take(w)
           \/ Reproject(w) /\ SucceedsOnValid(w)
           \/ Merge(w) /\ SucceedsOnValid(w)
           \/ Encode(w) /\ SucceedsOnValid(w)
           \/ Rmtree(w)
           \/ Touch(w)
           \/ Reap(w)

\* The processes of the pool keep running until the scheduler run ends.
SpecRerun == Init /\ [][NextRerun]_vars /\ WF_vars(NextRerun)

\* ------------------------------------------------ merge, run on its own
\* merge, lines 20-28: merge-done is there, or reprojection.json is not:
\* merge prints and returns.
MergeReturnsEarly_DoneOnly(u) == merge_done[u]
MergeReturnsEarly(u) == merge_done[u] \/ reprojection[u] = 0

\* aggregation_merge.py run as a script (lines 129-132) while no scheduler
\* runs: merge(filepath) on the tmp/ of u as it is.
MergeMain(u) ==
    /\ mainPc = "idle"
    /\ stage = "none"
    /\ \/ /\ MergeReturnsEarly(u)                        \* lines 21-28
          /\ UNCHANGED <<tiffs, merge_done>>
       \/ /\ ~MergeReturnsEarly(u)
          /\ NumTiffFiles(u) = 0                         \* lines 32-33
          /\ UNCHANGED <<tiffs, merge_done>>
       \/ /\ ~MergeReturnsEarly(u)
          /\ NumTiffFiles(u) = 1                         \* lines 35-38
          /\ merge_done' = [merge_done EXCEPT ![u] = TRUE]
          /\ UNCHANGED tiffs
       \/ /\ ~MergeReturnsEarly(u)                       \* lines 40-127
          /\ NumTiffFiles(u) > 1 /\ OutputId(u) \in TiffIds
          /\ InputsPresent(u)
          /\ tiffs' = WithOutput(u, MergedFrom(u))
          /\ merge_done' = [merge_done EXCEPT ![u] = TRUE]
       \/ /\ ~MergeReturnsEarly(u)     \* a read or a write raises in the loop
          /\ NumTiffFiles(u) > 1 /\ OutputId(u) \in TiffIds
          /\ tiffs' = IF tiffs[u][0] = NoFile THEN tiffs
                      ELSE WithOutput(u, Partial)
          /\ UNCHANGED merge_done
    /\ UNCHANGED <<more, calc, snapshot, tmp, reprojection, archive, md5,
                   aggregation_done, pool, stage, stage_completion>>

NextManual ==
    \/ Main
    \/ Finish
    \/ Kill
    \/ \E w \in Workers : Worker(w)
    \/ \E u \in Units : MergeMain(u)

SpecManual == Init /\ [][NextManual]_vars

\* ================================================= merge, pixel by pixel
\* aggregation_merge.merge, lines 62-124, on rasters of one row of Width
\* pixels.  Elevations are integers; the merged raster is kept in eighths
\* (units of 1/8), the common denominator of the blend of line 116.
SENTINEL == -9999

Width == 5        \* pixels of a raster row
tile_size == 2    \* block size of the loop of lines 63-64 (512 in the code)
overlap == 2      \* buffer_pixels read from reprojection.json (line 48)
MaxTiffs == 3     \* input tiffs of a merge

Pixels == 0..(Width - 1)
Max(a, b) == IF a > b THEN a ELSE b
Min(a, b) == IF a < b THEN a ELSE b
Range(f) == {f[i] : i \in DOMAIN f}

\* A one-row array with its elements evaluated.
Array(f) == f \o <<>>

\* The elevation group k (1 is tiff_filepaths[0]) has at pixel i where it
\* has data: different for every group and pixel, and above SENTINEL.
GroupElevation(k, i) == 100 * k + 10 * i * i

\* The raster of group k with data exactly on the pixels of mask.
GroupRaster(k, mask) ==
    [i \in Pixels |-> IF i \in mask THEN GroupElevation(k, i) ELSE SENTINEL]

\* reproject, lines 110-111: every tiff but the last one has a SENTINEL.
MergeInput(tiles) ==
    \E n \in 2..MaxTiffs : \E masks \in [1..n -> SUBSET Pixels] :
        /\ \A k \in 1..(n - 1) : masks[k] # Pixels
        /\ tiles = [k \in 1..n |-> GroupRaster(k, masks[k])]

\* lines 65-70: the expanded window of the block at x.
x_start(x) == Max(0, x - overlap)
x_end(x) == Min(Width, x + tile_size + overlap)
WindowLen(x) == x_end(x) - x_start(x)

\* lines 74 and 87: src.read(1, window=window) of each input.
WindowTiles(tiles, x) ==
    Array([k \in 1..Len(tiles) |->
              Array([i \in 1..WindowLen(x) |-> tiles[k][x_start(x) + i - 1]])])

\* lines 80, 95, 104.
binary_mask(tile) == Array([i \in DOMAIN tile |-> tile[i] # SENTINEL])

\* ndimage.binary_erosion, cross structuring element, border_value 0.
binary_erosion(mask) ==
    Array([i \in DOMAIN mask |->
              /\ mask[i]
              /\ i > 1 /\ mask[i - 1]
              /\ i < Len(mask) /\ mask[i + 1]])

\* lines 80-82 and 95-97: the data pixels the erosion removes.
Edge(tile) ==
    LET mask == binary_mask(tile)
        eroded == binary_erosion(mask)
    IN  Array([i \in DOMAIN tile |-> mask[i] /\ ~eroded[i]])

\* line 89.
copy_mask_Overwrite(merged, current) == current # SENTINEL
copy_mask(merged, current) == merged = SENTINEL /\ current # SENTINEL

\* line 90.
Copied(merged_tile, current_tile) ==
    Array([i \in DOMAIN merged_tile |->
              IF copy_mask(merged_tile[i], current_tile[i])
              THEN current_tile[i]
              ELSE merged_tile[i]])

\* lines 84-97: the loop over tiff_filepaths[1:], from input k on.
RECURSIVE FillFrom(_, _, _, _)
FillFrom(tiles, k, merged_tile, boundary_tile) ==
    IF k > Len(tiles)
    THEN [merged_tile |-> merged_tile, boundary_tile |-> boundary_tile]
    ELSE LET copied == Copied(merged_tile, tiles[k])
             edge == Edge(copied)
         IN  IF SENTINEL \notin Range(copied)
             THEN [merged_tile |-> copied, boundary_tile |-> boundary_tile]
             ELSE FillFrom(tiles, k + 1, copied,
                      Array([i \in DOMAIN copied |->
                                boundary_tile[i] \/ edge[i]]))

\* lines 72-97: the window before the blend.
filled_from_start(tiles) == SENTINEL \notin Range(tiles[1])
Filled(tiles) ==
    IF filled_from_start(tiles)
    THEN [merged_tile |-> tiles[1],
          boundary_tile |-> Array([i \in DOMAIN tiles[1] |-> FALSE])]
    ELSE FillFrom(tiles, 2, tiles[1], Edge(tiles[1]))

\* lines 99-106: the rim of the window is cleared, and the boundary is
\* clipped to the data.
Boundary(tiles) ==
    LET f == Filled(tiles)
        mask == binary_mask(f.merged_tile)
    IN  Array([i \in DOMAIN f.merged_tile |->
                  /\ f.boundary_tile[i]
                  /\ i # 1 /\ i # Len(f.merged_tile)
                  /\ mask[i]])

\* ndimage.gaussian_filter, mode reflect, scaled down to the 3-tap kernel
\* (1, 2, 1) / 4; the result is in quarters.
Reflect(i, n) == IF i < 1 THEN 1 ELSE IF i > n THEN n ELSE i
gaussian_filter(a) ==
    Array([i \in DOMAIN a |->
              a[Reflect(i - 1, Len(a))] + 2 * a[i]
                + a[Reflect(i + 1, Len(a))]])

\* lines 111-114: the blurred boundary divided by the peak of the kernel
\* (2/4), clipped to [0, 1] and shaped with 3 t^2 - 2 t^3; in halves.
boundary_tile_blurred(boundary_tile) ==
    LET blurred == gaussian_filter(
                       Array([i \in DOMAIN boundary_tile |->
                                 IF boundary_tile[i] THEN 1 ELSE 0]))
        clipped == Array([i \in DOMAIN blurred |-> Min(2, blurred[i])])
    IN  Array([i \in DOMAIN clipped |->
                  (3 * clipped[i] * clipped[i]
                     - clipped[i] * clipped[i] * clipped[i]) \div 2])

\* lines 108-116: the window after the blend, in eighths.
Blended(tiles) ==
    LET f == Filled(tiles)
        boundary_tile == Boundary(tiles)
    IN  IF TRUE \in Range(boundary_tile)
        THEN LET weight == boundary_tile_blurred(boundary_tile)
                 merged_tile_blurred == gaussian_filter(f.merged_tile)
             IN  Array([i \in DOMAIN f.merged_tile |->
                           weight[i] * merged_tile_blurred[i]
                             + (2 - weight[i]) * 4 * f.merged_tile[i]])
        ELSE Array([i \in DOMAIN f.merged_tile |-> 8 * f.merged_tile[i]])

\* lines 118-121.
crop_x_start_None(x) == 0
crop_x_start(x) == IF x > 0 THEN overlap ELSE 0
crop_x_end(x) == WindowLen(x) - (IF x_end(x) < Width THEN overlap ELSE 0)

\* lines 63-64: the block pixel p lies in, and the origins of the blocks.
BlockOf(p) == p - (p % tile_size)
Blocks == {x \in Pixels : x % tile_size = 0}

\* line 123: the pixels of the output window of the block at x.
output_window(x) ==
    {p \in Pixels : p >= x /\ p < x + (crop_x_end(x) - crop_x_start(x))}

\* line 124: the output once the block at x has written its slice
\* merged_tile[crop_x_start:crop_x_end] to its output window.
WriteWindow(raster, x, merged_tile) ==
    Array([i \in 1..Width |->
              IF (i - 1) \in output_window(x)
              THEN merged_tile[crop_x_start(x) + (i - 1 - x) + 1]
              ELSE raster[i]])

\* The output once the blocks of order, from the k-th on, have written,
\* tile[x] being the window of the block at x after the blend.
RECURSIVE WriteFrom(_, _, _, _)
WriteFrom(raster, order, k, tile) ==
    IF k > Len(order) THEN raster
    ELSE WriteFrom(WriteWindow(raster, order[k], tile[order[k]]),
                   order, k + 1, tile)

\* A pixel of the output no block has written.
Unwritten == <<>>

\* lines 62-124 with the blocks taken in the given order.
MergedRasterIn(tiles, order) ==
    LET tile == [x \in Blocks |-> Blended(WindowTiles(tiles, x))]
        raster == WriteFrom([i \in 1..Width |-> Unwritten], order, 1, tile)
    IN  [p \in Pixels |-> raster[p + 1]]

\* range(0, width, tile_size), in order.
RowMajor == SortedSeq(Blocks)

MergedRaster(tiles) == MergedRasterIn(tiles, RowMajor)

InitMerge ==
    /\ AtRest /\ NoMore /\ NoPlan /\ NoBundle /\ NoElevation
    /\ MergeInput(tiff_tiles)
    /\ merged_raster = <<>>

\* merge, lines 62-124: the output raster is written.
MergeTiles ==
    /\ tiff_tiles # <<>>
    /\ merged_raster = <<>>
    /\ merged_raster' = MergedRaster(tiff_tiles)
    /\ UNCHANGED <<more, snapshot, disk, pool, stage, stage_completion, tiff_tiles,
                   grouped_source_items, maxzoom, metadata, warp_buffer,
                   filepaths, written, data, rgb, elevation>>

SpecMerge == InitMerge /\ [][MergeTiles]_vars

\* ================================================= merge, the block loop
\* aggregation_merge.merge, lines 63-70 and 118-124, on the sizes alone:
\* the windows the loop reads and the windows it writes, for rasters of
\* any height and width and any overlap.
MaxSide == 5        \* height and width of a raster, in pixels
MaxOverlap == 3     \* buffer_pixels of reprojection.json

\* lines 65 and 67: y_start, x_start.
window_start(p, ov) == Max(0, p - ov)

\* lines 66 and 68: y_end, x_end.
window_end(p, size, ov) == Min(size, p + tile_size + ov)

\* lines 118 and 120: crop_y_start, crop_x_start.
crop_start(p, ov) == IF p > 0 THEN ov ELSE 0

\* lines 119 and 121: crop_y_end, crop_x_end.
crop_end(p, size, ov) ==
    (window_end(p, size, ov) - window_start(p, ov))
        - (IF window_end(p, size, ov) < size THEN ov ELSE 0)

\* range(0, size, tile_size), in order.
BlockOrigins(size) ==
    [i \in 1..((size + tile_size - 1) \div tile_size) |-> (i - 1) * tile_size]

\* lines 63-64: the origins (x, y) of the blocks, row by row.
BlockLoop(g) ==
    LET ys == BlockOrigins(g.height)
        xs == BlockOrigins(g.width)
    IN  [k \in 1..(Len(ys) * Len(xs)) |->
            [y |-> ys[((k - 1) \div Len(xs)) + 1],
             x |-> xs[((k - 1) % Len(xs)) + 1]]]

\* lines 123-124: what the block at (x, y) writes: the output window, and
\* the raster coordinates of the first pixel of the slice it writes there.
BlockWrite(g, b) ==
    [x |-> b.x, y |-> b.y,
     width |-> crop_end(b.x, g.width, g.overlap) - crop_start(b.x, g.overlap),
     height |-> crop_end(b.y, g.height, g.overlap) - crop_start(b.y, g.overlap),
     src_x |-> window_start(b.x, g.overlap) + crop_start(b.x, g.overlap),
     src_y |-> window_start(b.y, g.overlap) + crop_start(b.y, g.overlap)]

InitBlocks ==
    /\ AtRest /\ NoCalc /\ NoDownsample /\ NoDownloads
    /\ grid \in [height : 1..MaxSide, width : 1..MaxSide,
                 overlap : 0..MaxOverlap]
    /\ dst_writes = <<>>
    /\ sigma = <<>>

\* One pass of the loop body of lines 64-124.
WriteBlock ==
    /\ grid # <<>>
    /\ Len(dst_writes) < Len(BlockLoop(grid))
    /\ dst_writes' =
           Append(dst_writes,
                  BlockWrite(grid, BlockLoop(grid)[Len(dst_writes) + 1]))
    /\ UNCHANGED <<snapshot, disk, pool, stage, stage_completion, calc,
                   downsample, downloads, grid, sigma>>

SpecBlocks == InitBlocks /\ [][WriteBlock]_vars

\* ================================================== merge, the sigma
\* aggregation_merge.merge, lines 42-48 and 108-112: the sigma of the two
\* Gaussian filters, from the buffer_pixels reprojection.json records.
\* reproject records int(utils.macrotile_buffer_3857 / resolution) for a
\* plan of several groups (aggregation_reproject.py, lines 96-97): any
\* whole number of pixels, depending on the constant and the zoom.
MaxBufferPixels == 30

\* lines 109-110: sigma = int(overlap / truncate) - 1.
sigma_NoDecrement(buffer) == buffer \div 4
sigma_of(buffer) == (buffer \div 4) - 1

InitSigma ==
    /\ AtRest /\ NoRasters /\ NoBundle /\ NoElevation
    /\ grouped_source_items = <<>> /\ maxzoom = 0 /\ warp_buffer = <<>>
    /\ grid = <<>> /\ dst_writes = <<>> /\ NoDownsample /\ NoDownloads
    /\ metadata \in [buffer_pixels : 0..MaxBufferPixels,
                     tiff_dataset_ids : 2..MaxTiffs]
    /\ sigma = <<>>

\* lines 108-112 in a window that has a boundary pixel.
BlendWindow ==
    /\ metadata # <<>>
    /\ sigma = <<>>
    /\ sigma' = <<sigma_of(metadata.buffer_pixels)>>
    /\ UNCHANGED <<snapshot, disk, pool, stage, stage_completion, calc,
                   downsample, downloads, grid, dst_writes>>

SpecSigma == InitSigma /\ [][BlendWindow]_vars

\* ================================================ reproject, the buffer
\* aggregation_reproject.reproject, lines 88-118, on the plan alone: the
\* buffer it records and the extents it warps to.  Lengths are in units of
\* the resolution of the finest zoom.
MaxPlanGroups == 3   \* source groups of a plan
MaxFiles == 3        \* files of a source group
MaxZoom == 2         \* zooms 0..MaxZoom

\* utils.macrotile_buffer_3857, the halo of a macrotile: one and a half
\* pixels of the coarsest zoom at the bounds above.
macrotile_buffer_3857 == 6

RECURSIVE Pow2(_)
Pow2(n) == IF n = 0 THEN 1 ELSE 2 * Pow2(n - 1)

\* get_resolution, lines 23-26: the pixel size halves with every zoom.
get_resolution(zoom) == Pow2(MaxZoom - zoom)

RECURSIVE Sum(_)
Sum(seq) == IF seq = <<>> THEN 0 ELSE Head(seq) + Sum(Tail(seq))

\* line 92.
total_source_files(items) == Sum(items)

\* line 96.
NeedsBuffer_GroupsOnly(items) == Len(items) > 1
NeedsBuffer(items) == Len(items) > 1 \/ total_source_files(items) > 1

\* lines 94-97: int() truncates the quotient.
buffer_pixels(items, zoom) ==
    IF NeedsBuffer(items)
    THEN macrotile_buffer_3857 \div get_resolution(zoom)
    ELSE 0

\* lines 95 and 98.
buffer_3857_rounded(items, zoom) ==
    buffer_pixels(items, zoom) * get_resolution(zoom)

\* create_warp, lines 29-33: the extent of the warp, relative to the
\* bounds of the aggregation tile.
create_warp(buffer) ==
    [left |-> 0 - buffer, bottom |-> 0 - buffer,
     right |-> buffer, top |-> buffer]

InitReproject ==
    /\ AtRest /\ NoMore /\ NoRasters /\ NoBundle /\ NoElevation
    /\ \E n \in 1..MaxPlanGroups :
           grouped_source_items \in [1..n -> 1..MaxFiles]
    /\ maxzoom \in 0..MaxZoom
    /\ metadata = <<>>
    /\ warp_buffer = <<>>

\* reproject, lines 88-118, for a plan none of whose tiffs is free of
\* SENTINEL: every group is warped, then the metadata is dumped.
ReprojectPlan ==
    /\ grouped_source_items # <<>>
    /\ metadata = <<>>
    /\ warp_buffer' =
           [i \in 1..Len(grouped_source_items) |->
               create_warp(buffer_3857_rounded(grouped_source_items, maxzoom))]
    /\ metadata' =
           [buffer_pixels |-> buffer_pixels(grouped_source_items, maxzoom),
            tiff_dataset_ids |-> Len(grouped_source_items)]
    /\ UNCHANGED <<more, snapshot, disk, pool, stage, stage_completion, tiff_tiles, merged_raster,
                   grouped_source_items, maxzoom, filepaths, written, data,
                   rgb, elevation>>

SpecReproject == InitReproject /\ [][ReprojectPlan]_vars

\* ============================================================ the bundle
\* bundle.create_archive, lines 88-128.  An archive is the record
\* [z, x, y, child_z] its file name <z>-<x>-<y>-<child_z>.pmtiles spells; a
\* tile is <<z, x, y>>.
MaxTileZoom == 2     \* zooms of the tiles of a bundle
MaxArchives == 3     \* participating archives

TilesAt(z) == {<<z, x, y>> : x \in 0..(Pow2(z) - 1), y \in 0..(Pow2(z) - 1)}

Archives ==
    UNION {{[z |-> t[1], x |-> t[2], y |-> t[3], child_z |-> cz] :
               t \in TilesAt(z), cz \in z..MaxTileZoom} : z \in 0..MaxTileZoom}

\* mercantile.children(parent, zoom=zoom): the descendants of the tile at
\* that zoom.
children(t, zoom) ==
    LET n == Pow2(zoom - t[1])
    IN  {<<zoom, t[2] * n + i, t[3] * n + j>> : i \in 0..(n - 1), j \in 0..(n - 1)}

\* pmtiles.tile.zxy_to_tileid: the tiles of the lower zooms, plus the
\* position of (x, y) on the Hilbert curve of the zoom.
RECURSIVE TilesBelow(_)
TilesBelow(z) == IF z = 0 THEN 0 ELSE TilesBelow(z - 1) + Pow2(z - 1) * Pow2(z - 1)

RECURSIVE HilbertIndex(_, _, _)
HilbertIndex(s, x, y) ==
    IF s = 0 THEN 0
    ELSE LET rx == (x \div s) % 2
             ry == (y \div s) % 2
             quadrant == IF rx = 0 THEN ry ELSE 3 - ry       \* (3 * rx) ^ ry
             x0 == x % s
             y0 == y % s
             flipped == ry = 0 /\ rx = 1
             x1 == IF flipped THEN s - 1 - x0 ELSE x0
             y1 == IF flipped THEN s - 1 - y0 ELSE y0
         IN  s * s * quadrant
               + (IF ry = 0 THEN HilbertIndex(s \div 2, y1, x1)
                  ELSE HilbertIndex(s \div 2, x1, y1))

zxy_to_tileid(t) == TilesBelow(t[1]) + HilbertIndex(Pow2(t[1]) \div 2, t[2], t[3])

\* The tiles a per-macrotile archive holds: the descendants of its
\* macrotile at the zooms z..child_z.
ArchiveTiles(a) ==
    UNION {children(<<a.z, a.x, a.y>>, zoom) : zoom \in a.z..a.child_z}

\* read_full_archive, lines 66-73: tile_id -> bytes of the archive; the
\* bytes of a tile are named by the archive and the tile.
read_full_archive(a) ==
    [tile_id \in {zxy_to_tileid(t) : t \in ArchiveTiles(a)} |->
        <<a, CHOOSE t \in ArchiveTiles(a) : zxy_to_tileid(t) = tile_id>>]

\* lines 96-101: the tiles create_archive takes from one archive.
TilesTaken_All(a) == ArchiveTiles(a)
TilesTaken(a) ==
    IF a.z = a.child_z THEN {<<a.z, a.x, a.y>>}
    ELSE children(<<a.z, a.x, a.y>>, a.child_z)

\* The order of the file names, ties of the sort of line 117.
PathBefore(a, b) ==
    LET ka == <<a.z, a.x, a.y, a.child_z>>
        kb == <<b.z, b.x, b.y, b.child_z>>
    IN  \E i \in 1..4 : ka[i] < kb[i] /\ \A j \in 1..(i - 1) : ka[j] = kb[j]

EntryBefore(e, f) ==
    \/ e.tile_id < f.tile_id
    \/ e.tile_id = f.tile_id /\ PathBefore(e.filepath, f.filepath)

\* lines 91-104: the entries of the archives, in the order of filepaths.
EntriesOf(a) == {[tile_id |-> zxy_to_tileid(t), filepath |-> a] : t \in TilesTaken(a)}

\* line 117: sorted(tile_ids_and_filepaths).
RECURSIVE sorted_Descending(_)
sorted_Descending(entries) ==
    IF entries = {} THEN <<>>
    ELSE LET e == CHOOSE e \in entries : \A f \in entries : ~EntryBefore(e, f)
         IN  <<e>> \o sorted_Descending(entries \ {e})
RECURSIVE sorted(_)
sorted(entries) ==
    IF entries = {} THEN <<>>
    ELSE LET e == CHOOSE e \in entries : \A f \in entries : ~EntryBefore(f, e)
         IN  <<e>> \o sorted(entries \ {e})

\* lines 88-117.
tile_ids_and_filepaths(paths) == sorted(UNION {EntriesOf(a) : a \in paths})

InitBundle ==
    /\ AtRest /\ NoMore /\ NoRasters /\ NoPlan /\ NoElevation
    /\ \E paths \in [1..MaxArchives -> Archives] :
           filepaths = {paths[i] : i \in 1..MaxArchives}
    /\ written = <<>>

\* create_archive, lines 88-128: every entry of the sorted list is passed
\* to write_tile with the bytes its archive holds for the tile.
CreateArchive ==
    /\ filepaths # {}
    /\ written = <<>>
    /\ LET entries == tile_ids_and_filepaths(filepaths)
       IN  written' =
               [i \in 1..Len(entries) |->
                   [tile_id |-> entries[i].tile_id,
                    bytes |-> read_full_archive(entries[i].filepath)
                                  [entries[i].tile_id]]]
    /\ UNCHANGED <<more, snapshot, disk, pool, stage, stage_completion, tiff_tiles, merged_raster,
                   grouped_source_items, maxzoom, metadata, warp_buffer,
                   filepaths, data, rgb, elevation>>

SpecBundle == InitBundle /\ [][CreateArchive]_vars

\* ========================================================= the terrarium
\* gpu_utils.optimize_terrarium_encoding, lines 259-264 (the GPU branch and
\* its fallback, lines 266-287, compute the same three expressions), and
\* generate_previews.decode_terrarium, lines 12-23.  An elevation is an
\* integer number of 1/256 m, the step of the blue channel; the float32
\* arrays of the code hold 24 significant bits, so a value of 2^24 steps or
\* more is rounded to the nearest even number of steps.
StepsPerMetre == 256

float32(n) ==
    LET a == IF n < 0 THEN -n ELSE n
        r == IF a <= 16777216 THEN a
             ELSE IF a % 2 = 0 THEN a
             ELSE IF ((a + 1) \div 2) % 2 = 0 THEN a + 1 ELSE a - 1
    IN  IF n < 0 THEN -r ELSE r

\* The elevations tried, in metres: the ends of the encodable range, the
\* steps over a red and a green carry, sea level, a summit, and the first
\* values outside the range on both sides.
Metres == {-32770, -32769, -32768, -32767, -257, -256, -255, -1, 0, 1,
           255, 256, 257, 8848, 32766, 32767, 32768, 32769}

Elevations ==
    {float32(m * StepsPerMetre + f) : m \in Metres, f \in 0..(StepsPerMetre - 1)}

\* data + 32768.0 without the offset.
data_shifted_NoOffset(d) == float32(d)

\* data_shifted = data + 32768.0
data_shifted(d) == float32(d + 32768 * StepsPerMetre)

\* .astype(np.uint8) of a float: the value itself when it is one a uint8
\* holds; the conversion of any other value is undefined and may leave any
\* byte.
astype_uint8(v) == IF v \in 0..255 THEN {v} ELSE 0..255

\* data_shifted // 256, in metres
red(d) == astype_uint8(data_shifted(d) \div (256 * StepsPerMetre))

\* data_shifted % 256, a float in [0, 256), truncated by the cast
green(d) ==
    astype_uint8((data_shifted(d) % (256 * StepsPerMetre)) \div StepsPerMetre)

\* (data_shifted - floor(data_shifted)) * 256
blue(d) ==
    astype_uint8(((data_shifted(d) % StepsPerMetre) * 256) \div StepsPerMetre)

\* elevation = (r * 256.0 + g + b / 256.0) - 32768.0, each operation
\* rounded to float32.
decode_terrarium(c) ==
    LET r == c[1] * 256 * StepsPerMetre
        g == c[2] * StepsPerMetre
        b == (c[3] * StepsPerMetre) \div 256
    IN  float32(float32(float32(r + g) + b) - 32768 * StepsPerMetre)

InitTerrarium ==
    /\ AtRest /\ NoMore /\ NoRasters /\ NoPlan /\ NoBundle
    /\ data \in Elevations
    /\ rgb = <<>>
    /\ elevation = <<>>

optimize_terrarium_encoding ==
    /\ rgb = <<>>
    /\ \E r \in red(data), g \in green(data), b \in blue(data) :
           rgb' = <<r, g, b>>
    /\ UNCHANGED <<more, snapshot, disk, pool, stage, stage_completion, tiff_tiles, merged_raster,
                   grouped_source_items, maxzoom, metadata, warp_buffer,
                   filepaths, written, data, elevation>>

DecodeTerrarium ==
    /\ rgb # <<>>
    /\ elevation = <<>>
    /\ elevation' = <<decode_terrarium(rgb)>>
    /\ UNCHANGED <<more, snapshot, disk, pool, stage, stage_completion, tiff_tiles, merged_raster,
                   grouped_source_items, maxzoom, metadata, warp_buffer,
                   filepaths, written, data, rgb>>

SpecTerrarium ==
    InitTerrarium /\ [][optimize_terrarium_encoding \/ DecodeTerrarium]_vars

\* ================================================================ claims
Busy(w) == pc[w] # "idle"

\* The on-disk state of one unit.
DiskOf(u) == <<tmp[u], tiffs[u], reprojection[u], merge_done[u], archive[u],
               md5[u], aggregation_done[u]>>

\* The tiffs a clean run leaves in tmp/ once n > 1 groups are merged.
CleanTiffs(n) ==
    [i \in TiffIds |->
        IF i < n THEN Reprojected
        ELSE IF i = n THEN <<"merged">> \o [j \in 1..n |-> "reproj"]
        ELSE NoFile]

\* C1: in every execution, killed and failed ones included, the sentinel
\* -aggregation.done of a unit is created only by a call of run() in which
\* reproject, merge and encode have returned and tmp/ has been removed, and
\* at that moment the archive and its .md5 are written.
C1_DoneOnlyAfterAllSteps ==
    [][\A u \in Units :
          (~aggregation_done[u] /\ aggregation_done'[u]) =>
              /\ \E w \in Workers :
                     unit[w] = u /\ pc[w] = "touch" /\ last[w] = "removed"
              /\ ~tmp[u]
              /\ archive[u] # NoFile
              /\ md5[u]]_vars

\* C1 witness: after a killed first run, the re-run has created the sentinel
\* of a unit it dispatched.
C1_Witness ==
    /\ runs = 2 /\ kills = 1
    /\ \E u \in dispatched : aggregation_done[u]

\* C2 as claimed: when merge is re-run on a unit killed during merge
\* (reprojection.json present, merge-done absent, the N reprojected tiffs in
\* tmp/ and possibly a half-written N-3857.tiff), it reads the same N tiffs
\* as a clean run and leaves the tmp/ of a clean run.
C2_ResumedMergeEqualsClean ==
    [][\A w \in Workers :
          LET u == unit[w]
              n == reprojection[u]
          IN  ( /\ pc[w] = "merge" /\ mainPc = "running"
                /\ n > 1 /\ ~merge_done[u]
                /\ \A i \in TiffIds :
                       \/ i < n /\ tiffs[u][i] = Reprojected
                       \/ i = n /\ tiffs[u][i] \in {NoFile, Partial}
                       \/ i > n /\ tiffs[u][i] = NoFile
                /\ merge_done'[u] )
              => tiffs'[u] = CleanTiffs(n)]_vars

\* C3: no two workers hold the same unit at the same time, no unit is
\* entered more than once in a scheduler run, and a worker is never inside
\* run() for a unit whose -aggregation.done exists.
C3_NoSharedUnit ==
    /\ \A w, v \in Workers : (w # v /\ Busy(w) /\ Busy(v)) => unit[w] # unit[v]
    /\ \A u \in Units : entered[u] <= 1
    /\ \A w \in Workers : Busy(w) => ~aggregation_done[unit[w]]

\* C3 witness: two workers are inside run() at once.
C3_Witness ==
    \E w, v \in Workers : w # v /\ Busy(w) /\ Busy(v) /\ pc[w] = "merge"

\* What the scheduler reports at pool shutdown: starmap re-raises the one
\* exception the map result stored.
Reported == IF first_exception = NoUnit THEN {} ELSE {first_exception}

RunEnded == mainPc = "idle" /\ exit_code \in {"ok", "error"}

\* C4 as claimed: at pool shutdown the scheduler reports the set of the
\* failed unit keys.
C4_ReportsFailedSet == RunEnded => Reported = failed

\* C4 as amended: a raise of run() for one unit does not stop the pool:
\* when the scheduler run ends every dispatched unit has been entered once,
\* and has its -aggregation.done unless its own run() raised; the scheduler
\* then re-raises the first stored exception only, the exception of one
\* failed unit, and ends with an error exactly when some unit failed.
C4_PoolContinues ==
    RunEnded =>
        /\ \A u \in dispatched :
               entered[u] = 1 /\ (u \in failed \/ aggregation_done[u])
        /\ failed \subseteq dispatched
        /\ Reported \subseteq failed
        /\ (failed = {}) = (Reported = {})
        /\ (exit_code = "ok") = (failed = {})

\* C4 witness: a run ended with one unit failed and another one completed.
C4_Witness ==
    /\ RunEnded /\ failed # {}
    /\ \E u \in dispatched : u \notin failed /\ aggregation_done[u]

\* The dirty set as the claim states it.
ClaimedDirty ==
    {u \in Units :
        /\ aggregation_ids = 1 \/ previous[u] \in {"differs", "absent"}
        /\ ~aggregation_done[u]}

\* C5: the units a scheduler run dispatches are the plans of the current
\* snapshot (one snapshot), or the plans changed or new against the previous
\* snapshot (two snapshots), that have no -aggregation.done when the run
\* starts; each is queued once.
C5_DispatchedIsDirtyNotDone ==
    [][(mainPc = "idle" /\ mainPc' = "running") =>
          /\ dispatched' = ClaimedDirty
          /\ {queue'[i] : i \in 1..Len(queue')} = ClaimedDirty
          /\ Len(queue') = Cardinality(ClaimedDirty)]_vars

\* C5 witness: a second run in which a unit is dispatched and a dirty unit
\* that has its sentinel is not.
C5_Witness ==
    /\ runs = 2 /\ mainPc = "running"
    /\ \E u, v \in Units :
           /\ u \in DirtyCandidates /\ aggregation_done[u] /\ u \notin dispatched
           /\ v \in dispatched

\* C6: while a worker is in reproject for a unit whose reprojection.json
\* exists, no tiff of the unit is created, modified or deleted, the json is
\* left alone, and reproject returns having warped nothing.
C6_NoRewarpOnResume ==
    [][\A w \in Workers :
          LET u == unit[w] IN
          (pc[w] = "reproject" /\ reprojection[u] # 0) =>
              /\ tiffs'[u] = tiffs[u]
              /\ reprojection'[u] = reprojection[u]
              /\ pc'[w] \in {"reproject", "merge", "idle"}
              /\ pc'[w] = "merge" => last'[w] = "skipped"]_vars

\* C6 witness: a re-run found reprojection.json, skipped the warps and is
\* about to merge a unit whose merge was not finished.
C6_Witness ==
    \E w \in Workers :
        /\ pc[w] = "merge" /\ last[w] = "skipped"
        /\ reprojection[unit[w]] > 1 /\ ~merge_done[unit[w]]

\* C7 as claimed: when run() is entered for a unit whose merge-done exists
\* (and whose -aggregation.done does not), reproject returns without
\* warping: a worker about to call merge on such a unit has skipped the warps.
C7_MergedUnitIsNotRewarped ==
    \A w \in Workers :
        (pc[w] = "merge" /\ merge_done[unit[w]]) => last[w] = "skipped"

\* C8: once a unit has its -aggregation.done, no later step or scheduler
\* run changes anything of it on disk, and no later run dispatches it.
C8_DoneIsFinal ==
    [][\A u \in Units :
          aggregation_done[u] =>
              /\ DiskOf(u)' = DiskOf(u)
              /\ (mainPc = "idle" /\ mainPc' = "running") => u \notin dispatched'
              /\ ~tmp[u] /\ archive[u] # NoFile]_vars

\* C8 witness: a second scheduler run after a successful one ended having
\* dispatched nothing.
C8_Witness ==
    /\ runs = 2 /\ kills = 0 /\ RunEnded /\ dispatched = {}
    /\ DirtyCandidates = Units
    /\ \A u \in Units : aggregation_done[u]

\* C9: a unit that has its -aggregation.done has its archive and the
\* archive's .md5, and no tmp/.
C9_DoneImpliesArchive ==
    \A u \in Units :
        aggregation_done[u] => archive[u] # NoFile /\ md5[u] /\ ~tmp[u]

\* C9 witness: a unit completed by a re-run that followed a killed run.
C9_Witness ==
    /\ kills = 1 /\ runs = 2 /\ mainPc = "idle"
    /\ \E u \in dispatched : aggregation_done[u]

RECURSIVE FirstData(_, _, _)
FirstData(tiles, k, p) ==
    IF k > Len(tiles) THEN SENTINEL
    ELSE IF tiles[k][p] # SENTINEL THEN tiles[k][p]
    ELSE FirstData(tiles, k + 1, p)

Merged == merged_raster # <<>>

\* C11: a pixel that is SENTINEL in every input tiff is SENTINEL in the
\* merged raster, and a pixel with data in some input tiff is not SENTINEL
\* in the merged raster, the pixels next to a blended boundary included.
C11_NodataFlow ==
    Merged =>
        \A p \in Pixels :
            (merged_raster[p] = 8 * SENTINEL)
                = (FirstData(tiff_tiles, 1, p) = SENTINEL)

\* The pixels of a seam: data after some input was copied in, next to a
\* pixel that had no data then.
RECURSIVE SeamFrom(_, _, _)
SeamFrom(tiles, k, p) ==
    /\ k <= Len(tiles)
    /\ \/ /\ FirstData(SubSeq(tiles, 1, k), 1, p) # SENTINEL
          /\ \E q \in {p - 1, p + 1} \cap Pixels :
                 FirstData(SubSeq(tiles, 1, k), 1, q) = SENTINEL
       \/ SeamFrom(tiles, k + 1, p)

OutsideBlend(p) ==
    \A q \in {p - 1, p, p + 1} \cap Pixels : ~SeamFrom(tiff_tiles, 1, q)

\* C12: before the blend every pixel of every window has the value of the
\* first input with data there (a later input never replaces data of an
\* earlier one), and a merged pixel where the first tiff has data and that
\* is not next to a seam has the value of the first tiff.
C12_FirstGroupWins ==
    Merged =>
        /\ \A p \in Pixels :
               LET x == BlockOf(p)
               IN  \A i \in 1..WindowLen(x) :
                       Filled(WindowTiles(tiff_tiles, x)).merged_tile[i]
                           = FirstData(tiff_tiles, 1, x_start(x) + i - 1)
        /\ \A p \in Pixels :
               (tiff_tiles[1][p] # SENTINEL /\ OutsideBlend(p))
                   => merged_raster[p] = 8 * tiff_tiles[1][p]

\* C12 witness: a merged raster with a pixel of the first tiff away from
\* every seam, a pixel filled from the second and one from the third tiff.
C12_Witness ==
    /\ Merged
    /\ Len(tiff_tiles) = 3
    /\ \E p \in Pixels : tiff_tiles[1][p] # SENTINEL /\ OutsideBlend(p)
    /\ \E p \in Pixels :
           /\ tiff_tiles[1][p] = SENTINEL
           /\ tiff_tiles[2][p] # SENTINEL /\ tiff_tiles[3][p] # SENTINEL
    /\ \E p \in Pixels : FirstData(tiff_tiles, 1, p) = tiff_tiles[3][p]
                            /\ tiff_tiles[3][p] # SENTINEL
    /\ \E p \in Pixels : merged_raster[p] # 8 * FirstData(tiff_tiles, 1, p)

\* --------------------------------------------------------- reproject
\* The number of groups the claim says reproject processes: up to and
\* including the first group of a multi-group plan whose tiff is free of
\* SENTINEL, all groups when there is none.
GroupsNeeded(p) ==
    IF p.groups > 1 /\ p.firstFull < p.groups THEN p.firstFull + 1
    ELSE p.groups

\* Worker w leaves reproject having written reprojection.json.
ReprojectSucceeds(w) ==
    pc[w] = "reproject" /\ pc'[w] = "merge" /\ last'[w] = "warped"

\* C13: reproject processes the groups in priority order and stops after
\* the first group i of a multi-group plan whose tiff has no SENTINEL: the
\* tiffs of groups 0..i are written, no tiff of a later group is touched,
\* tiff_dataset_ids has length i + 1; all groups when no tiff is full.  A
\* call that raises has not touched a group after i either.
C13_StopsAfterFirstFullGroup ==
    [][\A w \in Workers :
          LET u == unit[w]
              n == GroupsNeeded(plan[u])
          IN  (pc[w] = "reproject" /\ pc'[w] # "reproject") =>
                  /\ \A j \in TiffIds : j >= n => tiffs'[u][j] = tiffs[u][j]
                  /\ ReprojectSucceeds(w) =>
                         /\ reprojection'[u] = n
                         /\ \A j \in 0..(n - 1) : tiffs'[u][j] = Reprojected]_vars

\* C13 witness: a plan of two groups whose first tiff is full was
\* reprojected: one tiff, none of the second group.
C13_Witness ==
    \E w \in Workers :
        LET u == unit[w] IN
        /\ pc[w] = "merge" /\ last[w] = "warped"
        /\ plan[u].groups = 2 /\ plan[u].firstFull = 0
        /\ reprojection[u] = 1
        /\ tiffs[u][0] = Reprojected /\ tiffs[u][1] = NoFile

\* C14: when reproject has written reprojection.json, tmp/ holds exactly
\* the tiffs 0-3857.tiff .. (N-1)-3857.tiff, N the length of
\* tiff_dataset_ids and 1 <= N <= groups of the plan, and no other tiff, so
\* that the count merge takes with its glob is N.
C14_ExactlyNTiffs ==
    [][\A w \in Workers :
          LET u == unit[w] IN
          ReprojectSucceeds(w) =>
              /\ reprojection'[u] \in 1..plan[u].groups
              /\ \A i \in TiffIds :
                     (tiffs'[u][i] # NoFile) = (i < reprojection'[u])
              /\ Cardinality({i \in TiffIds : tiffs'[u][i] # NoFile})
                     = reprojection'[u]]_vars

\* C16: merge entered with reprojection.json, without merge-done and with
\* exactly one tiff in tmp/ creates merge-done and returns: no tiff is
\* created, modified or deleted.
C16_SingleTiffShortcut ==
    [][\A w \in Workers :
          LET u == unit[w] IN
          (/\ pc[w] = "merge" /\ pc'[w] # "merge" /\ mainPc' = "running"
           /\ reprojection[u] # 0 /\ ~merge_done[u]
           /\ Cardinality({i \in TiffIds : tiffs[u][i] # NoFile}) = 1) =>
              /\ tiffs'[u] = tiffs[u]
              /\ merge_done'[u]
              /\ pc'[w] = "encode" /\ last'[w] = "shortcut"]_vars

\* C16 witness: merge took the shortcut on a unit with the single tiff
\* 0-3857.tiff, which is still the only one.
C16_Witness ==
    \E w \in Workers :
        LET u == unit[w] IN
        /\ pc[w] = "encode" /\ last[w] = "shortcut"
        /\ merge_done[u] /\ reprojection[u] = 1
        /\ tiffs[u][0] = Reprojected
        /\ \A i \in TiffIds \ {0} : tiffs[u][i] = NoFile

\* C20: reprojection.json is created only by a call of reproject in which
\* every processed group was warped and translated without error; a call
\* of reproject that raises leaves reprojection.json absent.
C20_JsonOnlyOnSuccess ==
    [][\A u \in Units :
          /\ reprojection[u] = 0 /\ reprojection'[u] # 0 =>
                 \E w \in Workers :
                     /\ unit[w] = u /\ ReprojectSucceeds(w)
                     /\ \A j \in 0..(reprojection'[u] - 1) :
                            tiffs'[u][j] = Reprojected
          /\ (\E w \in Workers : /\ unit[w] = u /\ pc[w] = "reproject"
                                  /\ u \in failed' \ failed) =>
                 reprojection'[u] = 0]_vars

\* C20 witness: reproject raised at the second group, after the first tiff
\* was written, and there is no reprojection.json.
C20_Witness ==
    \E u \in Units :
        /\ u \in failed
        /\ tmp[u] /\ reprojection[u] = 0
        /\ tiffs[u][0] = Reprojected /\ tiffs[u][1] # Reprojected

\* ------------------------------------------------------------ buffer
\* The plan has exactly one group of exactly one file.
SingleFile ==
    Len(grouped_source_items) = 1 /\ grouped_source_items[1] = 1

\* The halo in pixels, rounded to the nearest whole pixel.
RoundedHaloPixels ==
    (2 * macrotile_buffer_3857 + get_resolution(maxzoom))
        \div (2 * get_resolution(maxzoom))

\* The halo in pixels, truncated to a whole pixel.
TruncatedHaloPixels == macrotile_buffer_3857 \div get_resolution(maxzoom)

\* Every group was warped to the tile bounds extended by b on all sides.
WarpedWith(b) ==
    \A i \in DOMAIN warp_buffer :
        warp_buffer[i] = [left |-> 0 - b, bottom |-> 0 - b,
                          right |-> b, top |-> b]

\* C15 as claimed: buffer_pixels is 0 exactly for the plans of one group of
\* one file, and is the halo rounded to whole pixels for all other plans,
\* used as the buffer of the warp on all four sides.
C15_RoundedHalo ==
    metadata # <<>> =>
        /\ (metadata.buffer_pixels = 0) = SingleFile
        /\ ~SingleFile => metadata.buffer_pixels = RoundedHaloPixels
        /\ WarpedWith(metadata.buffer_pixels * get_resolution(maxzoom))

\* C15 as amended: buffer_pixels is 0 for the plans of one group of one
\* file and the halo truncated to whole pixels for all other plans (not 0
\* when the halo is at least one pixel long); every group is warped to the
\* tile bounds extended by buffer_pixels * resolution on all four sides.
C15_TruncatedHalo ==
    metadata # <<>> =>
        /\ SingleFile => metadata.buffer_pixels = 0
        /\ ~SingleFile => metadata.buffer_pixels = TruncatedHaloPixels
        /\ (~SingleFile /\ macrotile_buffer_3857 >= get_resolution(maxzoom))
               => metadata.buffer_pixels > 0
        /\ WarpedWith(metadata.buffer_pixels * get_resolution(maxzoom))

\* C15 witness: a plan of a single group of two files was reprojected with
\* a halo that is not a whole number of pixels.
C15_Witness ==
    /\ metadata # <<>>
    /\ Len(grouped_source_items) = 1 /\ grouped_source_items[1] = 2
    /\ metadata.buffer_pixels > 0
    /\ metadata.buffer_pixels * get_resolution(maxzoom) # macrotile_buffer_3857

\* ------------------------------------------------------------ bundle
Bundled == written # <<>>

\* No tile is taken from two participating archives.
DisjointArchives ==
    \A a, b \in filepaths :
        a # b => {zxy_to_tileid(t) : t \in TilesTaken(a)}
                   \cap {zxy_to_tileid(t) : t \in TilesTaken(b)} = {}

\* C17 as claimed: for any set of participating archives every write_tile
\* call has a tile_id greater than that of the call before.
C17_StrictlyAscending ==
    Bundled =>
        \A i \in 1..(Len(written) - 1) :
            written[i].tile_id < written[i + 1].tile_id

\* C17 as amended: the tile_ids of the write_tile calls never decrease, and
\* they strictly ascend, none written twice, when no two participating
\* archives hold the same tile at their child zoom.
C17_AscendingStrictIfDisjoint ==
    Bundled =>
        /\ \A i \in 1..(Len(written) - 1) :
               written[i].tile_id <= written[i + 1].tile_id
        /\ DisjointArchives =>
               \A i \in 1..(Len(written) - 1) :
                   written[i].tile_id < written[i + 1].tile_id

\* C17 witness: a bundle of three archives of three different child zooms
\* that share no tile.
C17_Witness ==
    /\ Bundled /\ DisjointArchives
    /\ Cardinality(filepaths) = 3
    /\ Cardinality({a.child_z : a \in filepaths}) = 3
    /\ Len(written) > 3

\* The descendants of the macrotile of archive a at zoom zoom, by their
\* ancestor.
Descendants(a, zoom) ==
    {t \in TilesAt(zoom) :
        /\ t[2] \div Pow2(zoom - a.z) = a.x
        /\ t[3] \div Pow2(zoom - a.z) = a.y}

WrittenTiles == {written[i] : i \in DOMAIN written}

TileOf(a, t) == [tile_id |-> zxy_to_tileid(t), bytes |-> <<a, t>>]

\* C18 as claimed: the bundle holds every tile every participating archive
\* holds, the descendants of its macrotile at the zooms z..child_z, and no
\* other tile.
C18_UnionOfArchiveTiles ==
    Bundled =>
        WrittenTiles =
            UNION {{TileOf(a, t) :
                       t \in UNION {Descendants(a, zoom) :
                                        zoom \in a.z..a.child_z}} :
                   a \in filepaths}

\* C18 as amended: the bundle holds, for every participating archive, the
\* descendants of its macrotile at zoom child_z (the macrotile itself when
\* z = child_z) with the bytes the archive holds for them, each written
\* once per archive, and no other tile: the tiles an archive holds at the
\* zooms z..child_z-1 are not written.
C18_ChildZoomTilesOnly ==
    Bundled =>
        /\ WrittenTiles =
               UNION {{TileOf(a, t) : t \in Descendants(a, a.child_z)} :
                      a \in filepaths}
        /\ Len(written) = Cardinality(WrittenTiles)

\* C18 witness: a bundle with an archive that spans two zooms.
C18_Witness ==
    /\ Bundled
    /\ \E a \in filepaths :
           /\ a.child_z = a.z + 1
           /\ \A t \in Descendants(a, a.child_z) : TileOf(a, t) \in WrittenTiles
           /\ TileOf(a, <<a.z, a.x, a.y>>) \notin WrittenTiles

\* --------------------------------------------------------- terrarium
\* An elevation of the encodable range: a multiple of 1/256 m with
\* -32768 <= h < 32768.
Encodable ==
    /\ data >= -32768 * StepsPerMetre
    /\ data < 32768 * StepsPerMetre

\* C19: for every elevation h that is a multiple of 1/256 m with
\* -32768 <= h < 32768, the three channels of the encoding are in 0..255
\* and are R = floor(v / 256), G = floor(v mod 256), B = floor(frac(v) * 256)
\* of v = h + 32768, and decoding them gives back h.
C19_TerrariumRoundTrip ==
    Encodable =>
        /\ rgb # <<>> =>
               LET v == data + 32768 * StepsPerMetre
               IN  /\ \A i \in 1..3 : rgb[i] \in 0..255
                   /\ rgb[1] * 256 * StepsPerMetre + rgb[2] * StepsPerMetre
                          + rgb[3] = v
        /\ elevation # <<>> => elevation[1] = data

\* C19 witness: an elevation below sea level with a fraction of a metre,
\* encoded with all three channels non-zero and decoded.
C19_Witness ==
    /\ Encodable
    /\ data < 0
    /\ data % StepsPerMetre # 0
    /\ rgb # <<>>
    /\ \A i \in 1..3 : rgb[i] > 0
    /\ elevation # <<>>

\* ------------------------------------------------------------ failures
\* Worker w leaves run() by an exception raised in the call named.
Raises(w, call) ==
    /\ mainPc = "running"
    /\ pc[w] = call
    /\ unit[w] \notin failed
    /\ unit[w] \in failed'

\* C21 as claimed: when a step of reproject fails for a group, no tiff the
\* invocation produced, for that group or for the groups before it, is left
\* in tmp/.
C21_NoPartialOutput ==
    [][\A w \in Workers :
          Raises(w, "reproject") => tiffs'[unit[w]] = tiffs[unit[w]]]_vars

\* C22: when reproject, merge or encode raises for a unit, the step leaves
\* reprojection.json, merge-done and -aggregation.done as they were and
\* does not remove tmp/; and as long as the unit counts as failed it has no
\* -aggregation.done and its tmp/ is there.
C22_FailureKeepsSentinels ==
    /\ [][\A w \in Workers :
             LET u == unit[w] IN
             (Raises(w, "reproject") \/ Raises(w, "merge")
                \/ Raises(w, "encode")) =>
                 /\ aggregation_done'[u] = aggregation_done[u]
                 /\ reprojection'[u] = reprojection[u]
                 /\ merge_done'[u] = merge_done[u]
                 /\ tmp'[u]
                 /\ pc'[w] = "idle"]_vars
    /\ [](\A u \in failed : ~aggregation_done[u] /\ tmp[u])

\* C22 witness: a run ended in which merge raised for a unit whose
\* reprojection.json is written, and another unit was completed.
C22_Witness ==
    /\ RunEnded
    /\ \E u \in failed :
           /\ reprojection[u] > 1 /\ ~merge_done[u] /\ tmp[u]
           /\ \E i \in TiffIds : tiffs[u][i] = Partial /\ i = reprojection[u]
    /\ \E v \in dispatched : aggregation_done[v]

\* ------------------------------------------------------------ re-runs
\* A scheduler run that will not be interrupted has dispatched u after an
\* earlier run was killed.
RerunOf(u) ==
    /\ mainPc = "running"
    /\ exit_code = "none"
    /\ kills = MaxKills
    /\ runs > 1
    /\ u \in dispatched

\* C23 as claimed: from every on-disk state a kill can leave, a re-run of
\* the scheduler that is not interrupted and whose toolkit calls succeed on
\* valid inputs eventually creates the -aggregation.done of the unit.
C23_RerunCompletes ==
    \A u \in Units : [](RerunOf(u) => <>aggregation_done[u])

\* ------------------------------------------------------------ blocks
\* The output pixels a write covers.
Covered(wr) ==
    {<<px, py>> : px \in wr.x..(wr.x + wr.width - 1),
                  py \in wr.y..(wr.y + wr.height - 1)}

\* The pixels of the raster inside the block a write belongs to.
Interior(wr) ==
    {<<px, py>> : px \in wr.x..(Min(grid.width, wr.x + tile_size) - 1),
                  py \in wr.y..(Min(grid.height, wr.y + tile_size) - 1)}

LoopDone == grid # <<>> /\ Len(dst_writes) = Len(BlockLoop(grid))

\* C24 as claimed: for every raster size and every overlap, the slice a
\* block writes at (x, y) starts at raster coordinate (x, y), is at most
\* tile_size by tile_size and lies inside the block, and after all blocks
\* every pixel of the output is written.
C24_InteriorWrittenBack ==
    /\ \A k \in DOMAIN dst_writes :
           LET wr == dst_writes[k] IN
           /\ wr.src_x = wr.x /\ wr.src_y = wr.y
           /\ wr.width \in 0..tile_size /\ wr.height \in 0..tile_size
           /\ Covered(wr) \subseteq Interior(wr)
    /\ LoopDone =>
           UNION {Covered(dst_writes[k]) : k \in DOMAIN dst_writes}
               = (0..(grid.width - 1)) \X (0..(grid.height - 1))

\* ------------------------------------------------------------ block order
\* The orders the blocks can be taken in.
BlockOrders ==
    {order \in [1..Cardinality(Blocks) -> Blocks] :
        \A i, j \in DOMAIN order : order[i] = order[j] => i = j}

\* Two distinct blocks write the same output pixel.
OverlappingWrites ==
    \E x1, x2 \in Blocks :
        x1 # x2 /\ output_window(x1) \cap output_window(x2) # {}

C26_SigmaAtLeastOne ==
    sigma # <<>> => sigma[1] >= 1 /\ metadata.buffer_pixels >= 8

\* C26 as amended: whenever merge blends, sigma is int(buffer_pixels / 4)
\* - 1, which is at least 1 exactly when the recorded buffer_pixels is at
\* least 8, is 0 for 4..7 pixels and is -1 below 4 pixels; merge computes
\* it from whatever reprojection.json records.
C26_SigmaFromBuffer ==
    sigma # <<>> =>
        LET b == metadata.buffer_pixels IN
        /\ (sigma[1] >= 1) = (b >= 8)
        /\ (sigma[1] = 0) = (b \in 4..7)
        /\ (sigma[1] = -1) = (b < 4)
        /\ 4 * (sigma[1] + 1) <= b /\ b < 4 * (sigma[1] + 2)

\* C26 witness: merge blends with a sigma of 0.
C26_Witness ==
    /\ sigma = <<0>>
    /\ metadata.buffer_pixels > 0
    /\ metadata.tiff_dataset_ids >= 2

\* ------------------------------------------------------------ merge-done
\* A step creates the merge-done of u, or changes a tiff of u, by a merge:
\* the merge a worker is in, or the script run on its own.
MergeCreatesDone(u) == ~merge_done[u] /\ merge_done'[u]

MergeWrites(u) ==
    /\ tiffs'[u] # tiffs[u]
    /\ \/ mainPc = "idle"
       \/ mainPc = "running"
            /\ \E w \in Workers : unit[w] = u /\ pc[w] = "merge" /\ pc'[w] # "merge"

\* merge-done is only created, and a raster only written, by a merge that
\* found reprojection.json and at least one tiff.
OnlyAfterReprojection ==
    [][\A u \in Units :
          (MergeCreatesDone(u) \/ MergeWrites(u)) =>
              /\ reprojection[u] # 0
              /\ reprojection'[u] # 0
              /\ NumTiffFiles(u) >= 1
              /\ \/ mainPc = "idle"
                 \/ \E w \in Workers : unit[w] = u /\ pc[w] = "merge"]_vars

StageIndex(st) ==
    CASE st = "none" -> 0
      [] st = "source_prep" -> 1
      [] st \in {"aggregation", "aggregation_run"} -> 2
      [] st \in {"downsampling", "downsampling_run"} -> 3
      [] st = "index" -> 4
      [] OTHER -> 5

\* run moves from a stage to the next one of the order, or stops.
InOrder ==
    stage' # stage =>
        \/ stage' = "stopped"
        \/ StageIndex(stage') = StageIndex(stage) + 1
        \/ stage = "aggregation" /\ stage' = "aggregation_run"
        \/ stage = "downsampling" /\ stage' = "downsampling_run"

\* A stage is recorded only by the step in which its command returned success
\* and run moves on to the stage after it.
RecordedOnSuccess ==
    stage_completion' # stage_completion =>
        /\ StageIndex(stage) \in 1..Len(stages)
        /\ stage_completion' = stage_completion \cup {stages[StageIndex(stage)]}
        /\ stage' # "stopped"
        /\ StageIndex(stage') = StageIndex(stage) + 1

\* C29 (as claimed): the stages recorded as complete are always a prefix of
\* the order: a later stage is never recorded while an earlier one is not.
C29_RecordedIsPrefix ==
    \A i \in 1..Len(stages) :
        stages[i] \in stage_completion =>
            \A j \in 1..(i - 1) : stages[j] \in stage_completion

\* C29 (amended): the stages run in the fixed order, a stage is started only
\* when the command of the stage before it succeeded, and a stage is recorded
\* as complete only when its own command succeeded; a stage whose command
\* succeeded can stay unrecorded, so the recorded set need not be a prefix.
C29_StagesInOrder == [][InOrder /\ RecordedOnSuccess]_vars

\* aggregation is recorded, source_prep is not, and run is past both.
C29_Witness ==
    /\ stage = "downsampling"
    /\ stage_completion = {"aggregation"}

\* ------------------------------------------- downsampling, the 2x2 mean
\* gpu_utils.py, gpu_accelerated_reshape_mean(data, new_shape, axis), called
\* with new_shape = (h, 2, w, 2) and axis = (1, 3).  pixels is the argument
\* data, a plain array of 2h rows and 2w columns; reduced is the result.
OutHeight == 1
OutWidth == 2

\* The two axes of new_shape that the mean is taken over have 2 entries each:
\* an output pixel is the mean of BlockSide * BlockSide pixels.  reduced keeps
\* the mean in units of 1/(BlockSide * BlockSide), which is the sum.
BlockSide == 2

\* The elevations of the pixels: no arr, sea level, a height.
SampleElevations == {SENTINEL, 0, 100}

\* data.reshape(new_shape)[i, a, j, b], with indices from 1.
reshape(arr, i, a, j, b) ==
    arr[BlockSide * (i - 1) + a][BlockSide * (j - 1) + b]

\* The four source pixels of output pixel (i, j), as a sequence.
SourcePixels(arr, i, j) ==
    <<reshape(arr, i, 1, j, 1), reshape(arr, i, 1, j, 2),
      reshape(arr, i, 2, j, 1), reshape(arr, i, 2, j, 2)>>

\* A reduction that leaves the pixels equal to SENTINEL out of the mean.
RECURSIVE Valid(_)
Valid(seq) ==
    IF seq = <<>> THEN <<>>
    ELSE IF Head(seq) = SENTINEL THEN Valid(Tail(seq))
    ELSE <<Head(seq)>> \o Valid(Tail(seq))

\* lines 122-123 (and 125, 136): .mean(axis = (1, 3)) of the reshaped array,
\* times BlockSide * BlockSide.  Every one of the four pixels enters the sum.
mean(arr, i, j) == Sum(SourcePixels(arr, i, j))

gpu_accelerated_reshape_mean(arr) ==
    Array([i \in 1..OutHeight |-> Array([j \in 1..OutWidth |-> mean(arr, i, j)])])

InitDownsample ==
    /\ AtRest /\ NoCalc /\ NoBlocks /\ NoDownloads
    /\ \E arr \in [1..(BlockSide * OutHeight) ->
                       [1..(BlockSide * OutWidth) -> SampleElevations]] :
           pixels = Array([r \in DOMAIN arr |-> Array(arr[r])])
    /\ reduced = <<>>

Downsample ==
    /\ reduced = <<>>
    /\ reduced' = gpu_accelerated_reshape_mean(pixels)
    /\ UNCHANGED <<snapshot, disk, pool, stage, stage_completion, calc, blocks,
                   downloads, pixels>>

SpecDownsample == InitDownsample /\ [][Downsample]_vars

\* ------------------------------------------------------------------ C28
\* C28: every output pixel of the 2x2 reduction is the mean over the source
\* pixels that are not SENTINEL, and is SENTINEL exactly when all four are:
\* with n valid pixels of sum s, n * (4 * mean) = 4 * s.
C28_MeanOverValid ==
    reduced # <<>> =>
        \A i \in 1..OutHeight, j \in 1..OutWidth :
            LET valid == Valid(SourcePixels(pixels, i, j))
                all == BlockSide * BlockSide
            IN  /\ valid = <<>> => reduced[i][j] = all * SENTINEL
                /\ valid # <<>> =>
                       /\ reduced[i][j] # all * SENTINEL
                       /\ Len(valid) * reduced[i][j] = all * Sum(valid)

\* ------------------------------------------- source_download, the tasks
\* source_download.py, download_all_files and download_file.  One task per
\* url (lines 180-194); the tasks interleave at their awaits.
NumUrls == 3
max_concurrent == 2
Tasks == 1..NumUrls

\* The position acquire returns when no position is available, line 39.
Fallback == 2

\* line 156: asyncio.Semaphore(value), the number of free permits.
Semaphore_OnePerUrl(value) == NumUrls
Semaphore(value) == value

\* PositionManager.__init__, lines 30-32.
PositionManager(max_positions, start_position) ==
    [k \in 1..max_positions |-> start_position + k - 1]

PositionsOf(avail) == {avail[k] : k \in DOMAIN avail}

\* PositionManager.acquire, lines 34-39: the position returned.
acquire(avail) == IF avail # <<>> THEN Head(avail) ELSE Fallback

\* PositionManager.release, lines 41-46: the list after the call.
release(avail, pos) ==
    IF pos \notin PositionsOf(avail)
    THEN SortedSeq(PositionsOf(avail) \cup {pos})
    ELSE avail

\* download_all_files, lines 140-194, up to the creation of the tasks.
InitDownloads ==
    /\ AtRest /\ NoCalc /\ NoBlocks /\ NoDownsample
    /\ task_pc = [t \in Tasks |-> "created"]
    /\ position = [t \in Tasks |-> 0]
    /\ available = PositionManager(max_concurrent, 1)
    /\ semaphore = Semaphore(max_concurrent)

DownloadStep(t, from, to) ==
    /\ task_pc[t] = from
    /\ task_pc' = [task_pc EXCEPT ![t] = to]
    /\ UNCHANGED <<snapshot, disk, pool, stage, stage_completion, calc, blocks,
                   downsample>>

\* line 75: async with semaphore, entered when a permit is free.
Enter(t) ==
    /\ DownloadStep(t, "created", "entered")
    /\ semaphore > 0
    /\ semaphore' = semaphore - 1
    /\ UNCHANGED <<position, available>>

\* line 77: position = await position_manager.acquire().
Acquire(t) ==
    /\ DownloadStep(t, "entered", "downloading")
    /\ position' = [position EXCEPT ![t] = acquire(available)]
    /\ available' = IF available # <<>> THEN Tail(available) ELSE available
    /\ UNCHANGED semaphore

\* lines 80-114: the download ended without an exception, the counter is
\* incremented and the progress bar closed.
Downloaded(t) ==
    /\ DownloadStep(t, "downloading", "try")
    /\ UNCHANGED <<position, available, semaphore>>

\* lines 118-121: the download raised, the counter is incremented and the
\* progress bar closed.
Raised(t) ==
    /\ DownloadStep(t, "downloading", "except")
    /\ UNCHANGED <<position, available, semaphore>>

\* line 115 and line 122: await position_manager.release(position).
ReleasePosition(t) ==
    /\ \/ DownloadStep(t, "try", "return_true")
       \/ DownloadStep(t, "except", "return_false")
    /\ available' = release(available, position[t])
    /\ UNCHANGED <<position, semaphore>>

\* line 116 and line 123: the return leaves the block of the semaphore.
Return(t) ==
    /\ \/ DownloadStep(t, "return_true", "true")
       \/ DownloadStep(t, "return_false", "false")
    /\ semaphore' = semaphore + 1
    /\ UNCHANGED <<position, available>>

NextDownloads ==
    \E t \in Tasks :
        \/ Enter(t)
        \/ Acquire(t)
        \/ Downloaded(t)
        \/ Raised(t)
        \/ ReleasePosition(t)
        \/ Return(t)

SpecDownloads == InitDownloads /\ [][NextDownloads]_vars

\* ------------------------------------------------------------------ C30
\* The tasks inside the block of the semaphore, and those that hold a position.
InFlight ==
    {t \in Tasks : task_pc[t] \in {"entered", "downloading", "try", "except",
                                   "return_true", "return_false"}}
Holding == {t \in Tasks : task_pc[t] \in {"downloading", "try", "except"}}
Released == {t \in Tasks : task_pc[t] \in {"return_true", "return_false",
                                           "true", "false"}}

\* C30: under any interleaving of the download tasks at most max_concurrent
\* downloads are in flight, no two of them hold the same position, a task that
\* is about to acquire finds a position available (the fallback is never
\* handed out), no held position is available to another task, and on the
\* success and on the failure path the position of a task is back in the pool
\* (or handed out again) once the task is past its release.
C30_DistinctPositions ==
    /\ Cardinality(InFlight) <= max_concurrent
    /\ \A t1 \in Holding, t2 \in Holding : t1 # t2 => position[t1] # position[t2]
    /\ (\E t \in Tasks : task_pc[t] = "entered") => available # <<>>
    /\ \A t \in Holding : position[t] \notin PositionsOf(available)
    /\ \A t \in Released :
           \/ position[t] \in PositionsOf(available)
           \/ \E t2 \in Holding : position[t2] = position[t]
    /\ Holding = {} => available = PositionManager(max_concurrent, 1)

\* One download succeeded, one failed, and a third holds the position that
\* one of them released, while max_concurrent downloads were in flight before.
C30_Witness ==
    \E t1 \in Tasks, t2 \in Tasks, t3 \in Tasks :
        /\ task_pc[t1] = "true"
        /\ task_pc[t2] = "false"
        /\ task_pc[t3] = "downloading"
        /\ position[t3] = position[t1]
        /\ position[t2] # position[t1]

====
